---- MODULE Spec2Model ----
(***************************************************************************)
(* Adaptive voice learning of CommScribe (scripts/adaptive_voice.py):      *)
(* VoiceSignature, AdaptiveVoiceLearner and VoiceManager as a state        *)
(* machine.                                                                *)
(*                                                                         *)
(* Numbers.  The code computes in double precision; the model computes in  *)
(* fixed point.  Vector components are integers (an embedding component    *)
(* of 1.0 is 1000), similarities and thresholds are thousandths (0.3 is    *)
(* 300), the confidence is hundredths (0.98 is 98) and a feedback strength *)
(* is a percentage (1.0 is 100).  Divisions round toward minus infinity.   *)
(*                                                                         *)
(* Optional values.  Python's None is the empty sequence <<>> and a        *)
(* present value x is <<x>>.                                               *)
(***************************************************************************)
EXTENDS Integers, Sequences, FiniteSets, TLC

VARIABLES
    learner,   \* holder -> <<>> or <<AdaptiveVoiceLearner>>: VoiceManager.learner, or a learner the caller owns
    disk,      \* user_id -> <<>> or <<VoiceSignature>>: profiles_dir / "<user_id>.json"
    env,       \* the embedding provider _get_default_embedder finds at this moment
    clock,     \* datetime.now(), advancing with every operation
    last,      \* the operation that ran last: its arguments, what it found, what it returned
    fbDone,    \* user_id -> number of VoiceManager.feedback calls completed since the profile was created
    projects,  \* project_id -> the ProjectState in project_dir / "<project_id>.json"
    reply      \* the MultiDraftWorkflow call that ran last: its arguments, the files it found, what it returned

vars == <<learner, disk, env, clock, last, fbDone, projects, reply>>

None == <<>>
Some(x) == <<x>>

----------------------------------------------------------------------------
(* Bounds of the model. *)

MaxBatch == 2      \* longest list of texts given to one call
MaxOpsCore == 2    \* operations in one run of Spec
MaxOpsLong == 16   \* operations in one run of SpecLong
MaxOpsMgr == 3     \* operations in one run of SpecMgr
MaxOpsDim == 3     \* operations in one run of SpecDim
MaxContrasts == 1  \* contrast vectors added in one run of SpecLong
MaxOpsCon == 4     \* operations in one run of SpecCon
MaxOpsFresh == 4   \* operations in one run of SpecFresh
MaxOpsIso == 3     \* operations in one run of SpecIso
MaxOpsDraft == 7   \* operations in one run of SpecDraft
MaxFreshBatch == 7 \* longest list of texts given to one call in SpecFresh

----------------------------------------------------------------------------
(* Program constants. *)

ChunkSize == 500          \* _chunk_text(chunk_size=500)
MinChunkWords == 100      \* "Minimum viable chunk"
PercentileRank == 10      \* np.percentile(similarities, 10)
ThresholdFloor == 300     \* max(0.3, ...)
ThresholdCeiling == 950   \* min(0.95, ...)
ThresholdStep == 20       \* 0.02 * strength
LearningRate == 1         \* strength * 0.01, in hundredths
FreshConfBase == 30       \* 0.3 + 0.1 * len(texts)
FreshConfPerSample == 10
FreshConfCap == 90        \* min(0.9, ...)
MergeConfPerSample == 5   \* 0.05 * len(texts)
MergeConfCap == 95        \* min(0.95, ...)
FeedbackConfAfter == 5    \* if total_feedback > 5
FeedbackConfStep == 1     \* confidence + 0.01
FeedbackConfCap == 98     \* min(0.98, ...)
DefaultStrength == 100    \* strength: float = 1.0
ContrastPenalty == 3      \* 0.3 * max_contrast, in tenths
ExcerptWords == 400       \* sample.split()[:400]
DefaultNSamples == 3      \* n_samples: int = 3
MAX_DRAFTS == 5           \* MultiDraftWorkflow.MAX_DRAFTS

----------------------------------------------------------------------------
(* The inputs: holders, users, texts, labels, providers. *)

Managers == {"m1", "m2"}
Solo == "solo"                       \* an AdaptiveVoiceLearner used directly
Holders == Managers \cup {Solo}
Users == {"u1", "u2"}
Texts == {"s", "m", "l"}
Labels == {"ai_generated", "generic_academic"}
Providers == {"local", "ollama"}
Strengths == {50, 100}

\* Texts of every length around the chunk size and the minimum, and the chunk
\* sizes _chunk_text is given them with.
SampleTexts ==
    Texts \cup {"w0", "w1", "w99", "w100", "w101", "w199", "w200", "w250", "w499",
                "w500", "w501", "w599", "w1000", "w1099", "w1100"}
ChunkSizes == {50, 99, 100, 101, 250, 500, 1000}

\* len(text.split()) of each text
Words(t) ==
    CASE t = "s" -> 50
      [] t = "m" -> 600
      [] t = "l" -> 1050
      [] t = "w0" -> 0
      [] t = "w1" -> 1
      [] t = "w99" -> 99
      [] t = "w100" -> 100
      [] t = "w101" -> 101
      [] t = "w199" -> 199
      [] t = "w200" -> 200
      [] t = "w250" -> 250
      [] t = "w499" -> 499
      [] t = "w500" -> 500
      [] t = "w501" -> 501
      [] t = "w599" -> 599
      [] t = "w1000" -> 1000
      [] t = "w1099" -> 1099
      [] t = "w1100" -> 1100

\* Whether the text is its own words joined by single blanks, so that
\* ' '.join(text.split()) == text.
Normalized(t) == t \in {"s", "l", "w100", "w250", "w500", "w1000"}

\* hashlib.sha256(text.encode()).hexdigest()[:16]: distinct texts, distinct digests
HashText(t) == <<"sha256", t>>

\* The strings handed to the provider.  A chunk is words[from : from+len] joined by
\* blanks; raw marks a string that is the text itself.
JoinedChunk(t, i, n) ==
    [text |-> t, from |-> i, len |-> n,
     raw |-> (i = 0 /\ n = Words(t) /\ Normalized(t))]
RawText(t) == [text |-> t, from |-> 0, len |-> Words(t), raw |-> TRUE]

SeqRange(n) == 1..n

RECURSIVE ChunkFrom(_, _, _)
ChunkFrom(t, i, size) ==
    IF i >= Words(t) THEN <<>>
    ELSE LET n == IF Words(t) - i < size THEN Words(t) - i ELSE size
             rest == ChunkFrom(t, i + size, size)
         IN  IF n >= MinChunkWords THEN <<JoinedChunk(t, i, n)>> \o rest ELSE rest

\* A _chunk_text that returns the chunks it kept, with nothing to fall back on.
ChunkTextWithoutFallback(t, chunk_size) == ChunkFrom(t, 0, chunk_size)

\* _chunk_text(text, chunk_size)
ChunkTextSized(t, chunk_size) ==
    LET chunks == ChunkFrom(t, 0, chunk_size)
    IN  IF chunks # <<>> THEN chunks ELSE <<RawText(t)>>

\* _chunk_text(text), chunk_size at its default
ChunkText(t) == ChunkTextSized(t, ChunkSize)

RECURSIVE AllChunks(_)
AllChunks(texts) ==
    IF texts = <<>> THEN <<>>
    ELSE ChunkText(Head(texts)) \o AllChunks(Tail(texts))

RECURSIVE SumWords(_)
SumWords(texts) ==
    IF texts = <<>> THEN 0 ELSE Words(Head(texts)) + SumWords(Tail(texts))

----------------------------------------------------------------------------
(* The embedding providers: deterministic, one vector per string. *)

Dimension(p) == IF p = "local" THEN 2 ELSE 3

Embedding2(c) ==
    CASE c.text = "s" -> <<-1000, 200>>
      [] c.text = "m" /\ c.raw -> <<1000, 200>>
      [] c.text = "m" /\ ~c.raw /\ c.from = 0 -> <<1000, 0>>
      [] c.text = "m" /\ ~c.raw /\ c.from # 0 -> <<0, 1000>>
      [] c.text = "l" /\ c.raw -> <<1000, 0>>
      [] c.text = "l" /\ ~c.raw /\ c.from = 0 -> <<1000, 0>>
      [] c.text = "l" /\ ~c.raw /\ c.from # 0 -> <<1000, 400>>

EmbedOne(p, c) ==
    IF p = "local" THEN Embedding2(c)
    ELSE Embedding2(c) \o <<IF c.raw THEN 200 ELSE 400>>

Embed(p, chunks) == [i \in SeqRange(Len(chunks)) |-> EmbedOne(p, chunks[i])]

----------------------------------------------------------------------------
(* numpy on vectors, in fixed point. *)

VAdd(a, b) == [i \in SeqRange(Len(a)) |-> a[i] + b[i]]
VSub(a, b) == [i \in SeqRange(Len(a)) |-> a[i] - b[i]]
VScale(a, k) == [i \in SeqRange(Len(a)) |-> a[i] * k]
VDiv(a, k) == [i \in SeqRange(Len(a)) |-> a[i] \div k]

RECURSIVE Dot(_, _)
Dot(a, b) == IF a = <<>> THEN 0 ELSE Head(a) * Head(b) + Dot(Tail(a), Tail(b))

RECURSIVE VSum(_)
VSum(vs) == IF Len(vs) = 1 THEN Head(vs) ELSE VAdd(Head(vs), VSum(Tail(vs)))

\* np.mean(embeddings, axis=0)
Mean(vs) == VDiv(VSum(vs), Len(vs))

\* The integer nearest to the square root of n, by bisection.
RECURSIVE SqrtBetween(_, _, _)
SqrtBetween(n, lo, hi) ==
    IF hi - lo <= 1 THEN (IF (n - lo * lo) <= (hi * hi - n) THEN lo ELSE hi)
    ELSE LET mid == (lo + hi) \div 2
         IN  IF mid * mid <= n THEN SqrtBetween(n, mid, hi) ELSE SqrtBetween(n, lo, mid)

Norm(a) == SqrtBetween(Dot(a, a), 0, 4096)

\* np.dot(a, b) / (np.linalg.norm(a) * np.linalg.norm(b)), in thousandths
CosineSimilaritySingle(a, b) == (Dot(a, b) * 1000) \div (Norm(a) * Norm(b))

\* embeddings_norm @ target_norm: one similarity per row
CosineSimilarity(embeddings, target) ==
    [i \in SeqRange(Len(embeddings)) |-> CosineSimilaritySingle(embeddings[i], target)]

RECURSIVE Insert(_, _)
Insert(x, sorted) ==
    IF sorted = <<>> THEN <<x>>
    ELSE IF x <= Head(sorted) THEN <<x>> \o sorted
    ELSE <<Head(sorted)>> \o Insert(x, Tail(sorted))

RECURSIVE Sorted(_)
Sorted(xs) == IF xs = <<>> THEN <<>> ELSE Insert(Head(xs), Sorted(Tail(xs)))

\* np.percentile(xs, q): linear interpolation between the closest ranks
Percentile(xs, q) ==
    LET srt == Sorted(xs)
        pos == q * (Len(xs) - 1)          \* the rank, in hundredths, counted from 0
        lo == pos \div 100
        frac == pos % 100
    IN  IF frac = 0 THEN srt[lo + 1]
        ELSE srt[lo + 1] + (frac * (srt[lo + 2] - srt[lo + 1])) \div 100

Min(a, b) == IF a <= b THEN a ELSE b
Max(a, b) == IF a >= b THEN a ELSE b

\* Whether numpy can combine the two vectors element by element or in a dot product.
SameShape(a, b) == Len(a) = Len(b)

----------------------------------------------------------------------------
(* VoiceSignature and AdaptiveVoiceLearner. *)

\* AdaptiveVoiceLearner.__init__, with the provider the probe found
NewLearner(p) == [embedder |-> p, signature |-> None, samples |-> <<>>]

\* The list a + b as it is, equal digests kept.
Concatenated(hs) == hs

\* list(set(a + b)): every digest once; the order of the list is not read anywhere
RECURSIVE Dedup(_)
Dedup(hs) ==
    IF hs = <<>> THEN <<>>
    ELSE LET rest == Dedup(Tail(hs))
         IN  IF \E i \in SeqRange(Len(rest)) : rest[i] = Head(hs)
             THEN rest ELSE <<Head(hs)>> \o rest

SampleHashes(texts) == [i \in SeqRange(Len(texts)) |-> HashText(texts[i])]

\* The result of a method: the learner after it, the error it raised ("" for
\* none), what it returned, and the batches it handed to embedder.embed.
Outcome(L, err, value, embeds) ==
    [learner |-> L, err |-> err, value |-> value, embeds |-> embeds]

\* A fresh confidence that grows with the samples without the cap.
FreshConfidenceUncapped(n) == FreshConfBase + FreshConfPerSample * n

FreshConfidence(n) == Min(FreshConfCap, FreshConfBase + FreshConfPerSample * n)
MergeConfidence(old, n) == Min(MergeConfCap, old + MergeConfPerSample * n)

\* A merge that gives the old and the new vector the same weight.
CombinedUnweighted(old_vec, old_weight, new_vec, new_weight) ==
    VDiv(VAdd(old_vec, new_vec), 2)

\* (old_vec * old_weight + new_vec * new_weight) / total_weight
Combined(old_vec, old_weight, new_vec, new_weight) ==
    VDiv(VAdd(VScale(old_vec, old_weight), VScale(new_vec, new_weight)),
         old_weight + new_weight)

\* A merge that takes the threshold of the new batch, whatever the old one was.
MergedThresholdOfBatch(threshold, old) == threshold

\* min(threshold, existing_signature.similarity_threshold)
MergedThreshold(threshold, old) == Min(threshold, old)

\* learn_from_samples(texts, user_id, existing_signature).  existing is <<>> or
\* <<signature>>; embedOk is whether the provider answers.
LearnFromSamples(L, texts, user_id, existing, embedOk, now) ==
    LET all_chunks == AllChunks(texts)
        embeddings == Embed(L.embedder, all_chunks)
        signature_vector == Mean(embeddings)
        similarities == CosineSimilarity(embeddings, signature_vector)
        threshold == Percentile(similarities, PercentileRank)
        sample_hashes == SampleHashes(texts)
        total_words == SumWords(texts)
    IN  IF ~embedOk THEN Outcome(L, "EmbedError", None, <<all_chunks>>)
        ELSE IF all_chunks = <<>> THEN Outcome(L, "NumpyError", None, <<all_chunks>>)
        ELSE IF existing # None THEN
            LET ex == existing[1]
                old_weight == ex.sample_count
                new_weight == Len(texts)
                total_weight == old_weight + new_weight
            IN  IF ~SameShape(ex.signature_vector, signature_vector)
                THEN Outcome(L, "NumpyError", None, <<all_chunks>>)
                ELSE LET sig ==
                             [user_id |-> user_id,
                              created_at |-> ex.created_at,
                              updated_at |-> now,
                              signature_vector |->
                                  Combined(ex.signature_vector, old_weight,
                                           signature_vector, new_weight),
                              signature_dim |-> Dimension(L.embedder),
                              sample_count |-> total_weight,
                              sample_hashes |-> Dedup(ex.sample_hashes \o sample_hashes),
                              total_words |-> ex.total_words + total_words,
                              similarity_threshold |->
                                  MergedThreshold(threshold, ex.similarity_threshold),
                              confidence |-> MergeConfidence(ex.confidence, Len(texts)),
                              positive_feedback |-> ex.positive_feedback,
                              negative_feedback |-> ex.negative_feedback,
                              contrast_vectors |-> ex.contrast_vectors,
                              contrast_labels |-> ex.contrast_labels]
                     IN  Outcome([L EXCEPT !.signature = Some(sig), !.samples = texts],
                                 "", Some(sig), <<all_chunks>>)
        ELSE LET sig ==
                     [user_id |-> user_id,
                      created_at |-> now,
                      updated_at |-> now,
                      signature_vector |-> signature_vector,
                      signature_dim |-> Dimension(L.embedder),
                      sample_count |-> Len(texts),
                      sample_hashes |-> sample_hashes,
                      total_words |-> total_words,
                      similarity_threshold |-> threshold,
                      confidence |-> FreshConfidence(Len(texts)),
                      positive_feedback |-> 0,
                      negative_feedback |-> 0,
                      contrast_vectors |-> <<>>,
                      contrast_labels |-> <<>>]
             IN  Outcome([L EXCEPT !.signature = Some(sig), !.samples = texts],
                         "", Some(sig), <<all_chunks>>)

\* An add_contrast that calls the provider once for every chunk.
AddContrastPerChunk(L, texts, label, embedOk, now) ==
    IF L.signature = None THEN Outcome(L, "NoSignature", None, <<>>)
    ELSE LET all_chunks == AllChunks(texts)
             contrast_vector == Mean(Embed(L.embedder, all_chunks))
             sig == L.signature[1]
             calls == [i \in SeqRange(Len(all_chunks)) |-> <<all_chunks[i]>>]
         IN  IF ~embedOk THEN Outcome(L, "EmbedError", None, <<<<all_chunks[1]>>>>)
             ELSE Outcome(
                 [L EXCEPT !.signature = Some(
                     [sig EXCEPT !.contrast_vectors = Append(@, contrast_vector),
                                 !.contrast_labels = Append(@, label),
                                 !.updated_at = now])],
                 "", None, calls)

\* An add_contrast that puts the new pair in front of the list.
AddContrastInFront(L, texts, label, embedOk, now) ==
    IF L.signature = None THEN Outcome(L, "NoSignature", None, <<>>)
    ELSE LET all_chunks == AllChunks(texts)
             contrast_vector == Mean(Embed(L.embedder, all_chunks))
             sig == L.signature[1]
         IN  IF ~embedOk THEN Outcome(L, "EmbedError", None, <<all_chunks>>)
             ELSE Outcome(
                 [L EXCEPT !.signature = Some(
                     [sig EXCEPT !.contrast_vectors = <<contrast_vector>> \o @,
                                 !.contrast_labels = <<label>> \o @,
                                 !.updated_at = now])],
                 "", None, <<all_chunks>>)

\* add_contrast(texts, label)
AddContrast(L, texts, label, embedOk, now) ==
    IF L.signature = None THEN Outcome(L, "NoSignature", None, <<>>)
    ELSE LET all_chunks == AllChunks(texts)
             contrast_vector == Mean(Embed(L.embedder, all_chunks))
             sig == L.signature[1]
         IN  IF ~embedOk THEN Outcome(L, "EmbedError", None, <<all_chunks>>)
             ELSE Outcome(
                 [L EXCEPT !.signature = Some(
                     [sig EXCEPT !.contrast_vectors = Append(@, contrast_vector),
                                 !.contrast_labels = Append(@, label),
                                 !.updated_at = now])],
                 "", None, <<all_chunks>>)

\* strength * 0.01 * d, for each component d
Adjustment(strength, d) == VDiv(VScale(d, strength * LearningRate), 100 * 100)

\* The threshold after feedback that approves of a text of the given similarity.
LoweredThreshold(threshold, similarity, strength) ==
    IF similarity < threshold
    THEN Max(ThresholdFloor, threshold - (ThresholdStep * strength) \div 100)
    ELSE threshold

\* The threshold after feedback that rejects a text of the given similarity.
RaisedThreshold(threshold, similarity, strength) ==
    IF similarity >= threshold
    THEN Min(ThresholdCeiling, threshold + (ThresholdStep * strength) \div 100)
    ELSE threshold

\* A feedback that adds to the confidence from the fifth event on.
FeedbackConfidenceFromFifth(confidence, total_feedback) ==
    IF total_feedback >= FeedbackConfAfter
    THEN Min(FeedbackConfCap, confidence + FeedbackConfStep)
    ELSE confidence

\* A feedback that adds to the confidence without the cap.
FeedbackConfidenceUncapped(confidence, total_feedback) ==
    IF total_feedback > FeedbackConfAfter
    THEN confidence + FeedbackConfStep
    ELSE confidence

\* The confidence after a feedback event, total_feedback counting that event.
FeedbackConfidence(confidence, total_feedback) ==
    IF total_feedback > FeedbackConfAfter
    THEN Min(FeedbackConfCap, confidence + FeedbackConfStep)
    ELSE confidence

\* feedback(text, sounds_like_me, strength), from the embedding call on
FeedbackOn(L, text, sounds_like_me, strength, embedOk, now) ==
         LET batch == <<RawText(text)>>
             embedding == Embed(L.embedder, batch)[1]
             sig == L.signature[1]
             old_vec == sig.signature_vector
         IN  IF ~embedOk THEN Outcome(L, "EmbedError", None, <<batch>>)
             ELSE IF ~SameShape(embedding, old_vec)
             THEN Outcome(L, "NumpyError", None, <<batch>>)
             ELSE LET current_similarity == CosineSimilaritySingle(embedding, old_vec)
                      positive == sig.positive_feedback + (IF sounds_like_me THEN 1 ELSE 0)
                      negative == sig.negative_feedback + (IF sounds_like_me THEN 0 ELSE 1)
                      new_vec ==
                          IF sounds_like_me
                          THEN VAdd(old_vec, Adjustment(strength, VSub(embedding, old_vec)))
                          ELSE VAdd(old_vec, Adjustment(strength, VSub(old_vec, embedding)))
                      threshold ==
                          IF sounds_like_me
                          THEN LoweredThreshold(sig.similarity_threshold,
                                                current_similarity, strength)
                          ELSE RaisedThreshold(sig.similarity_threshold,
                                               current_similarity, strength)
                      confidence == FeedbackConfidence(sig.confidence, positive + negative)
                      new == [sig EXCEPT !.positive_feedback = positive,
                                         !.negative_feedback = negative,
                                         !.signature_vector = new_vec,
                                         !.similarity_threshold = threshold,
                                         !.confidence = confidence,
                                         !.updated_at = now]
                  IN  Outcome([L EXCEPT !.signature = Some(new)], "",
                              Some([similarity |-> current_similarity,
                                    threshold |-> threshold,
                                    confidence |-> confidence,
                                    positive_feedback |-> positive,
                                    negative_feedback |-> negative]),
                              <<batch>>)

\* A feedback that embeds the text before it looks for the signature.
FeedbackEmbedsFirst(L, text, sounds_like_me, strength, embedOk, now) ==
    IF L.signature = None
    THEN Outcome(L, IF embedOk THEN "NoSignature" ELSE "EmbedError", None,
                 <<<<RawText(text)>>>>)
    ELSE FeedbackOn(L, text, sounds_like_me, strength, embedOk, now)

\* feedback(text, sounds_like_me, strength)
Feedback(L, text, sounds_like_me, strength, embedOk, now) ==
    IF L.signature = None THEN Outcome(L, "NoSignature", None, <<>>)
    ELSE FeedbackOn(L, text, sounds_like_me, strength, embedOk, now)

\* The dict built by  for vec, label in zip(contrast_vectors, contrast_labels):
\* a later vector of the same label replaces the earlier score.
ContrastScores(embedding, vectors, labels) ==
    LET n == Min(Len(vectors), Len(labels))
        LastOf(l) == CHOOSE i \in SeqRange(n) :
                         labels[i] = l /\ \A j \in SeqRange(n) : labels[j] = l => j <= i
    IN  [l \in {labels[i] : i \in SeqRange(n)} |->
            CosineSimilaritySingle(embedding, vectors[LastOf(l)])]

\* max(contrast_scores.values())
MaxScore(scores) ==
    CHOOSE x \in {scores[l] : l \in DOMAIN scores} :
        \A l \in DOMAIN scores : scores[l] <= x

\* An adjusted similarity without the penalty for resembling a contrast.
AdjustedSimilarityUnpenalized(similarity, scores) == similarity

\* similarity - 0.3 * max_contrast, or the similarity when the dict is empty
AdjustedSimilarity(similarity, scores) ==
    IF DOMAIN scores # {}
    THEN similarity - (ContrastPenalty * MaxScore(scores)) \div 10
    ELSE similarity

\* An evaluate that recalibrates: it stores the adjusted similarity as the
\* threshold when the text falls below the threshold.
EvaluateRecalibrating(L, text, embedOk) ==
    IF L.signature = None THEN Outcome(L, "NoSignature", None, <<>>)
    ELSE LET batch == <<RawText(text)>>
             embedding == Embed(L.embedder, batch)[1]
             sig == L.signature[1]
             n == Min(Len(sig.contrast_vectors), Len(sig.contrast_labels))
         IN  IF ~embedOk THEN Outcome(L, "EmbedError", None, <<batch>>)
             ELSE IF ~SameShape(embedding, sig.signature_vector)
                     \/ \E i \in SeqRange(n) : ~SameShape(embedding, sig.contrast_vectors[i])
             THEN Outcome(L, "NumpyError", None, <<batch>>)
             ELSE LET similarity == CosineSimilaritySingle(embedding, sig.signature_vector)
                      contrast_scores ==
                          ContrastScores(embedding, sig.contrast_vectors, sig.contrast_labels)
                      adjusted_similarity == AdjustedSimilarity(similarity, contrast_scores)
                  IN  Outcome([L EXCEPT !.signature = Some(
                                  [sig EXCEPT !.similarity_threshold =
                                      Min(@, adjusted_similarity)])],
                              "",
                              Some([similarity |-> similarity,
                                    adjusted_similarity |-> adjusted_similarity,
                                    sounds_like_me |->
                                        adjusted_similarity >= sig.similarity_threshold,
                                    threshold |-> sig.similarity_threshold,
                                    confidence |-> sig.confidence,
                                    contrast_scores |-> contrast_scores]),
                              <<batch>>)

\* evaluate(text)
Evaluate(L, text, embedOk) ==
    IF L.signature = None THEN Outcome(L, "NoSignature", None, <<>>)
    ELSE LET batch == <<RawText(text)>>
             embedding == Embed(L.embedder, batch)[1]
             sig == L.signature[1]
             n == Min(Len(sig.contrast_vectors), Len(sig.contrast_labels))
         IN  IF ~embedOk THEN Outcome(L, "EmbedError", None, <<batch>>)
             ELSE IF ~SameShape(embedding, sig.signature_vector)
                     \/ \E i \in SeqRange(n) : ~SameShape(embedding, sig.contrast_vectors[i])
             THEN Outcome(L, "NumpyError", None, <<batch>>)
             ELSE LET similarity == CosineSimilaritySingle(embedding, sig.signature_vector)
                      contrast_scores ==
                          ContrastScores(embedding, sig.contrast_vectors, sig.contrast_labels)
                      adjusted_similarity == AdjustedSimilarity(similarity, contrast_scores)
                  IN  Outcome(L, "",
                              Some([similarity |-> similarity,
                                    adjusted_similarity |-> adjusted_similarity,
                                    sounds_like_me |->
                                        adjusted_similarity >= sig.similarity_threshold,
                                    threshold |-> sig.similarity_threshold,
                                    confidence |-> sig.confidence,
                                    contrast_scores |-> contrast_scores]),
                              <<batch>>)

\* compare_texts(text_a, text_b); okA and okB are whether the provider answers each call
CompareTexts(L, text_a, text_b, okA, okB) ==
    IF L.signature = None THEN Outcome(L, "NoSignature", None, <<>>)
    ELSE LET eval_a == Evaluate(L, text_a, okA)
             eval_b == Evaluate(L, text_b, okB)
         IN  IF eval_a.err # "" THEN eval_a
             ELSE IF eval_b.err # ""
             THEN Outcome(L, eval_b.err, None, eval_a.embeds \o eval_b.embeds)
             ELSE LET a == eval_a.value[1].similarity
                      b == eval_b.value[1].similarity
                  IN  Outcome(L, "",
                              Some([text_a_similarity |-> a,
                                    text_b_similarity |-> b,
                                    closer_to_voice |-> IF a > b THEN "a" ELSE "b",
                                    difference |-> IF a >= b THEN a - b ELSE b - a]),
                              eval_a.embeds \o eval_b.embeds)

\* generate_voice_prompt(include_samples, n_samples): the sections of the prompt
\* and the values each one prints
GenerateVoicePrompt(L, include_samples, n_samples) ==
    IF L.signature = None THEN Outcome(L, "NoSignature", None, <<>>)
    ELSE LET sig == L.signature[1]
             shown == Min(n_samples, Len(L.samples))
         IN  Outcome(L, "",
                 Some([signature |-> [sample_count |-> sig.sample_count,
                                      total_words |-> sig.total_words,
                                      confidence |-> sig.confidence,
                                      threshold |-> sig.similarity_threshold],
                       contrast |-> sig.contrast_labels,
                       exemplars |->
                           IF include_samples /\ L.samples # <<>>
                           THEN [i \in SeqRange(shown) |->
                                    [text |-> L.samples[i],
                                     words |-> Min(ExcerptWords, Words(L.samples[i]))]]
                           ELSE <<>>,
                       feedback |->
                           IF sig.positive_feedback > 0 \/ sig.negative_feedback > 0
                           THEN Some(sig.positive_feedback + sig.negative_feedback)
                           ELSE None]),
                 <<>>)

----------------------------------------------------------------------------
(* VoiceManager. *)

\* VoiceSignature.save: json.dump(asdict(self)).  Integers, floats, strings and
\* lists of them are written in full, field by field.
Save(sig) ==
    [user_id |-> sig.user_id,
     created_at |-> sig.created_at,
     updated_at |-> sig.updated_at,
     signature_vector |-> sig.signature_vector,
     signature_dim |-> sig.signature_dim,
     sample_count |-> sig.sample_count,
     sample_hashes |-> sig.sample_hashes,
     total_words |-> sig.total_words,
     similarity_threshold |-> sig.similarity_threshold,
     confidence |-> sig.confidence,
     positive_feedback |-> sig.positive_feedback,
     negative_feedback |-> sig.negative_feedback,
     contrast_vectors |-> sig.contrast_vectors,
     contrast_labels |-> sig.contrast_labels]

\* VoiceSignature.load: cls(**json.load(f))
Load(data) ==
    [user_id |-> data.user_id,
     created_at |-> data.created_at,
     updated_at |-> data.updated_at,
     signature_vector |-> data.signature_vector,
     signature_dim |-> data.signature_dim,
     sample_count |-> data.sample_count,
     sample_hashes |-> data.sample_hashes,
     total_words |-> data.total_words,
     similarity_threshold |-> data.similarity_threshold,
     confidence |-> data.confidence,
     positive_feedback |-> data.positive_feedback,
     negative_feedback |-> data.negative_feedback,
     contrast_vectors |-> data.contrast_vectors,
     contrast_labels |-> data.contrast_labels]

\* The result of a VoiceManager method: self.learner and the profile files after
\* it, the error raised, the value returned, the batches embedded.
MOutcome(slot, files, err, value, embeds) ==
    [slot |-> slot, files |-> files, err |-> err, value |-> value, embeds |-> embeds]

\* setup_voice(user_id, samples, contrast_samples); contrast is <<>> or
\* <<[label, texts]>>, a dict of one label
SetupVoice(slot, files, p, user_id, samples, contrast, ok1, ok2, now) ==
    LET fresh == NewLearner(p)
        learned == LearnFromSamples(fresh, samples, user_id, None, ok1, now)
    IN  IF learned.err # ""
        THEN MOutcome(Some(fresh), files, learned.err, None, learned.embeds)
        ELSE IF contrast # None
        THEN LET added == AddContrast(learned.learner, contrast[1].texts,
                                      contrast[1].label, ok2, now)
                 embeds == learned.embeds \o added.embeds
             IN  IF added.err # ""
                 THEN MOutcome(Some(learned.learner), files, added.err, None, embeds)
                 ELSE MOutcome(Some(added.learner),
                               [files EXCEPT ![user_id] =
                                   Some(Save(added.learner.signature[1]))],
                               "", added.learner.signature, embeds)
        ELSE MOutcome(Some(learned.learner),
                      [files EXCEPT ![user_id] = Some(Save(learned.learner.signature[1]))],
                      "", learned.learner.signature, learned.embeds)

\* load_voice(user_id)
LoadVoice(slot, files, p, user_id) ==
    IF files[user_id] = None THEN MOutcome(slot, files, "", None, <<>>)
    ELSE LET sig == Load(files[user_id][1])
         IN  MOutcome(Some([NewLearner(p) EXCEPT !.signature = Some(sig)]),
                      files, "", Some(sig), <<>>)

\* add_samples(user_id, samples)
AddSamples(slot, files, p, user_id, samples, ok, now) ==
    LET loaded == LoadVoice(slot, files, p, user_id)
    IN  IF loaded.value = None
        THEN SetupVoice(loaded.slot, files, p, user_id, samples, None, ok, ok, now)
        ELSE LET fresh == NewLearner(p)
                 merged == LearnFromSamples(fresh, samples, user_id, loaded.value, ok, now)
             IN  IF merged.err # ""
                 THEN MOutcome(Some(fresh), files, merged.err, None, merged.embeds)
                 ELSE MOutcome(Some(merged.learner),
                               [files EXCEPT ![user_id] =
                                   Some(Save(merged.learner.signature[1]))],
                               "", merged.learner.signature, merged.embeds)

\* if not self.learner or not self.learner.signature: self.load_voice(user_id)
EnsureLoaded(slot, files, p, user_id) ==
    IF slot = None \/ slot[1].signature = None
    THEN LoadVoice(slot, files, p, user_id).slot
    ELSE slot

\* VoiceManager.feedback(user_id, text, sounds_like_me)
ManagerFeedback(slot, files, p, user_id, text, sounds_like_me, ok, now) ==
    LET ready == EnsureLoaded(slot, files, p, user_id)
    IN  IF ready = None THEN MOutcome(ready, files, "NoProfile", None, <<>>)
        ELSE LET r == Feedback(ready[1], text, sounds_like_me, DefaultStrength, ok, now)
             IN  IF r.err # "" THEN MOutcome(ready, files, r.err, None, r.embeds)
                 ELSE MOutcome(Some(r.learner),
                               [files EXCEPT ![user_id] =
                                   Some(Save(r.learner.signature[1]))],
                               "", r.value, r.embeds)

\* VoiceManager.evaluate(user_id, text)
ManagerEvaluate(slot, files, p, user_id, text, ok) ==
    LET ready == EnsureLoaded(slot, files, p, user_id)
    IN  IF ready = None THEN MOutcome(ready, files, "NoProfile", None, <<>>)
        ELSE LET r == Evaluate(ready[1], text, ok)
             IN  MOutcome(ready, files, r.err, r.value, r.embeds)

\* VoiceManager.get_prompt(user_id)
GetPrompt(slot, files, p, user_id) ==
    LET ready == EnsureLoaded(slot, files, p, user_id)
    IN  IF ready = None THEN MOutcome(ready, files, "NoProfile", None, <<>>)
        ELSE LET r == GenerateVoicePrompt(ready[1], TRUE, DefaultNSamples)
             IN  MOutcome(ready, files, r.err, r.value, r.embeds)

----------------------------------------------------------------------------
(* MultiDraftWorkflow (scripts/enhanced_pipeline_guardrails.py). *)

\* The texts a project is started with and the drafts submitted to it, by what
\* DraftStateDetector.detect and ConceptValidator.assess make of them.
Inputs == {"weak_concept", "sound_concept", "partial_draft"}
Drafts == {"partial_draft", "mature_draft"}
Comments == <<[issue |-> "c1"]>>

\* detection["detected_stage"]
DetectedStage(text) ==
    IF text \in {"weak_concept", "sound_concept"} THEN "concept_plan" ELSE text

\* assessment.can_proceed
CanProceed(text) == text = "sound_concept"

\* f"{user_id}_{datetime.now().strftime('%Y%m%d_%H%M%S')}"
ProjectId(user_id, now) == <<user_id, now>>

\* A project_id no project was started under.
MissingProject == ProjectId("u1", 0)

\* project_dir without files
NoFiles == [id \in {} |-> None]

\* What a call returns or raises: the "status" or the "error" of the dict, or
\* the exception, and the "version" or "draft_count" the dict carries.
Result(status, error, raised, number) ==
    [status |-> status, error |-> error, raised |-> raised, number |-> number]

\* The result of a MultiDraftWorkflow method: the files after it and its result.
WOutcome(files, result) == [files |-> files, result |-> result]

\* _save_state: json.dump(asdict(state)) into <project_id>.json
SaveState(files, state) ==
    [id \in DOMAIN files \cup {state.project_id} |->
        IF id = state.project_id
        THEN [project_id |-> state.project_id,
              user_id |-> state.user_id,
              topic |-> state.topic,
              current_stage |-> state.current_stage,
              concept_assessment |-> state.concept_assessment,
              draft_history |->
                  [i \in DOMAIN state.draft_history |->
                      [version |-> state.draft_history[i].version,
                       content |-> state.draft_history[i].content,
                       submitted_at |-> state.draft_history[i].submitted_at,
                       agent_comments |-> state.draft_history[i].agent_comments,
                       user_revisions |-> state.draft_history[i].user_revisions,
                       status |-> state.draft_history[i].status]],
              max_drafts_allowed |-> state.max_drafts_allowed,
              created_at |-> state.created_at,
              last_updated |-> state.last_updated]
        ELSE files[id]]

\* _load_state: <<>> when the file does not exist
LoadState(files, project_id) ==
    IF project_id \notin DOMAIN files THEN None
    ELSE LET data == files[project_id]
         IN  Some([project_id |-> data.project_id,
                   user_id |-> data.user_id,
                   topic |-> data.topic,
                   current_stage |-> data.current_stage,
                   concept_assessment |-> data.concept_assessment,
                   draft_history |->
                       [i \in DOMAIN data.draft_history |->
                           [version |-> data.draft_history[i].version,
                            content |-> data.draft_history[i].content,
                            submitted_at |-> data.draft_history[i].submitted_at,
                            agent_comments |-> data.draft_history[i].agent_comments,
                            user_revisions |-> data.draft_history[i].user_revisions,
                            status |-> data.draft_history[i].status]],
                   max_drafts_allowed |-> data.max_drafts_allowed,
                   created_at |-> data.created_at,
                   last_updated |-> data.last_updated])

\* start_project(user_id, topic, initial_input)
StartProject(files, user_id, topic, initial_input, now) ==
    LET project_id == ProjectId(user_id, now)
        stage == DetectedStage(initial_input)
        validated == stage = "concept_plan"
        state == [project_id |-> project_id,
                  user_id |-> user_id,
                  topic |-> topic,
                  current_stage |-> IF validated THEN <<"concept_validated">> ELSE <<stage>>,
                  concept_assessment |-> IF validated THEN Some(initial_input) ELSE None,
                  draft_history |-> <<>>,
                  max_drafts_allowed |-> MAX_DRAFTS,
                  created_at |-> now,
                  last_updated |-> now]
    IN  IF validated /\ ~CanProceed(initial_input)
        THEN WOutcome(files, Result("VALIDATION_FAILED", "", FALSE, 0))
        ELSE WOutcome(SaveState(files, state),
                      Result(IF validated THEN "CONCEPT_VALIDATED" ELSE "DRAFT_DETECTED",
                             "", FALSE, 0))

\* A submit_draft that takes a draft however many there are.
SubmitDraftUncapped(files, project_id, draft_content, user_notes, now) ==
    LET loaded == LoadState(files, project_id)
    IN  IF loaded = None THEN WOutcome(files, Result("", "Project not found", FALSE, 0))
        ELSE LET state == loaded[1]
                 new_version == [version |-> Len(state.draft_history) + 1,
                                 content |-> draft_content,
                                 submitted_at |-> now,
                                 agent_comments |-> <<>>,
                                 user_revisions |-> user_notes,
                                 status |-> "submitted"]
             IN  WOutcome(
                     SaveState(files,
                         [state EXCEPT
                             !.draft_history = Append(@, new_version),
                             !.current_stage = <<"draft", new_version.version, "submitted">>,
                             !.last_updated = now]),
                     Result("DRAFT_SUBMITTED", "", FALSE, new_version.version))

\* submit_draft(project_id, draft_content, user_notes)
SubmitDraft(files, project_id, draft_content, user_notes, now) ==
    LET loaded == LoadState(files, project_id)
    IN  IF loaded = None THEN WOutcome(files, Result("", "Project not found", FALSE, 0))
        ELSE LET state == loaded[1]
                 new_version == [version |-> Len(state.draft_history) + 1,
                                 content |-> draft_content,
                                 submitted_at |-> now,
                                 agent_comments |-> <<>>,
                                 user_revisions |-> user_notes,
                                 status |-> "submitted"]
             IN  IF Len(state.draft_history) >= state.max_drafts_allowed
                 THEN WOutcome(files, Result("MAX_DRAFTS_REACHED", "", FALSE,
                                             Len(state.draft_history)))
                 ELSE WOutcome(
                     SaveState(files,
                         [state EXCEPT
                             !.draft_history = Append(@, new_version),
                             !.current_stage = <<"draft", new_version.version, "submitted">>,
                             !.last_updated = now]),
                     Result("DRAFT_SUBMITTED", "", FALSE, new_version.version))

\* The place, counted from 1, of draft_history[version - 1]: Python counts an
\* index below 0 from the end of the list; 0 when the index is out of range.
Indexed(version, length) ==
    IF version >= 1 THEN (IF version <= length THEN version ELSE 0)
    ELSE (IF length + version >= 1 THEN length + version ELSE 0)

\* add_agent_review(project_id, version, comments)
AddAgentReview(files, project_id, version, comments, now) ==
    LET loaded == LoadState(files, project_id)
    IN  IF loaded = None \/ version > Len(loaded[1].draft_history)
        THEN WOutcome(files, Result("", "Draft version not found", FALSE, 0))
        ELSE LET state == loaded[1]
                 at == Indexed(version, Len(state.draft_history))
             IN  IF at = 0 THEN WOutcome(files, Result("", "IndexError", TRUE, 0))
                 ELSE WOutcome(
                     SaveState(files,
                         [state EXCEPT
                             !.draft_history[at].agent_comments = comments,
                             !.draft_history[at].status = "reviewed",
                             !.current_stage = <<"draft", version, "reviewed">>,
                             !.last_updated = now]),
                     Result("REVIEW_ADDED", "", FALSE, version))

\* get_project_status(project_id): the dict carries drafts_remaining
GetProjectStatus(files, project_id) ==
    LET loaded == LoadState(files, project_id)
    IN  IF loaded = None THEN WOutcome(files, Result("", "Project not found", FALSE, 0))
        ELSE WOutcome(files,
                      Result("", "", FALSE,
                             loaded[1].max_drafts_allowed - Len(loaded[1].draft_history)))

----------------------------------------------------------------------------
(* The state machine. *)

\* The lists of at most n texts of S, the empty list among them.
Batches(S, n) == UNION {[SeqRange(k) -> S] : k \in 0..n}

Call(op, h, user, texts, sounds, strength, label, existing, r, embeds) ==
    [op |-> op, holder |-> h, user |-> user, texts |-> texts, sounds |-> sounds,
     strength |-> strength, label |-> label, existing |-> existing,
     err |-> r.err, value |-> r.value, embeds |-> embeds,
     pre |-> learner[h], preFiles |-> disk, provider |-> env]

Init ==
    /\ env = "local"
    /\ learner = [h \in Holders |-> IF h = Solo THEN Some(NewLearner(env)) ELSE None]
    /\ disk = [u \in Users |-> None]
    /\ clock = 0
    /\ fbDone = [u \in Users |-> 0]
    /\ last = [op |-> "init", holder |-> Solo, user |-> "", texts |-> <<>>,
               sounds |-> FALSE, strength |-> 0, label |-> "", existing |-> FALSE,
               err |-> "", value |-> None, embeds |-> <<>>,
               pre |-> None, preFiles |-> disk, provider |-> env]
    /\ projects = NoFiles
    /\ reply = [op |-> "init", project |-> MissingProject, version |-> 0,
                result |-> Result("", "", FALSE, 0), pre |-> NoFiles]

\* Time passes when an operation reads datetime.now(); a run reads it at most
\* limit times.
Tick(reads, limit) ==
    /\ clock' = IF reads THEN clock + 1 ELSE clock
    /\ clock' <= limit

(* Operations on an AdaptiveVoiceLearner the caller holds. *)

\* A merge that does not look at the existing signature and learns afresh.
LearnIgnoringExisting(h, texts, user_id, merge, ok, limit) ==
    /\ learner[h] # None
    /\ merge => learner[h][1].signature # None
    /\ \E r \in {LearnFromSamples(learner[h][1], texts, user_id, None, ok, clock + 1)} :
           /\ learner' = [learner EXCEPT ![h] = Some(r.learner)]
           /\ last' = Call(IF merge THEN "merge" ELSE "learn", h, user_id, texts,
                           FALSE, 0, "", merge, r, r.embeds)
           /\ Tick(r.err = "", limit)
    /\ UNCHANGED <<disk, env, fbDone, projects, reply>>

\* A merge that starts the feedback counters of the merged signature at zero.
LearnResettingFeedback(h, texts, user_id, merge, ok, limit) ==
    /\ learner[h] # None
    /\ merge => learner[h][1].signature # None
    /\ \E r \in {LearnFromSamples(learner[h][1], texts, user_id,
                                 IF merge
                                 THEN Some([learner[h][1].signature[1] EXCEPT
                                               !.positive_feedback = 0,
                                               !.negative_feedback = 0])
                                 ELSE None,
                                 ok, clock + 1)} :
           /\ learner' = [learner EXCEPT ![h] = Some(r.learner)]
           /\ last' = Call(IF merge THEN "merge" ELSE "learn", h, user_id, texts,
                           FALSE, 0, "", merge, r, r.embeds)
           /\ Tick(r.err = "", limit)
    /\ UNCHANGED <<disk, env, fbDone, projects, reply>>

Learn(h, texts, user_id, merge, ok, limit) ==
    /\ learner[h] # None
    /\ merge => learner[h][1].signature # None
    /\ \E r \in {LearnFromSamples(learner[h][1], texts, user_id,
                                 IF merge THEN learner[h][1].signature ELSE None,
                                 ok, clock + 1)} :
           /\ learner' = [learner EXCEPT ![h] = Some(r.learner)]
           /\ last' = Call(IF merge THEN "merge" ELSE "learn", h, user_id, texts,
                           FALSE, 0, "", merge, r, r.embeds)
           /\ Tick(r.err = "", limit)
    /\ UNCHANGED <<disk, env, fbDone, projects, reply>>

Contrast(h, texts, label, ok, limit) ==
    /\ learner[h] # None
    /\ texts # <<>>
    /\ \E r \in {AddContrast(learner[h][1], texts, label, ok, clock + 1)} :
           /\ learner' = [learner EXCEPT ![h] = Some(r.learner)]
           /\ last' = Call("add_contrast", h, "", texts, FALSE, 0, label, FALSE, r, r.embeds)
           /\ Tick(r.err = "", limit)
    /\ UNCHANGED <<disk, env, fbDone, projects, reply>>

GiveFeedback(h, text, sounds_like_me, strength, ok, limit) ==
    /\ learner[h] # None
    /\ \E r \in {Feedback(learner[h][1], text, sounds_like_me, strength, ok, clock + 1)} :
           /\ learner' = [learner EXCEPT ![h] = Some(r.learner)]
           /\ last' = Call("feedback", h, "", <<text>>, sounds_like_me, strength, "",
                           FALSE, r, r.embeds)
           /\ Tick(r.err = "", limit)
    /\ UNCHANGED <<disk, env, fbDone, projects, reply>>

Eval(h, text, ok) ==
    /\ learner[h] # None
    /\ \E r \in {Evaluate(learner[h][1], text, ok)} :
           /\ learner' = [learner EXCEPT ![h] = Some(r.learner)]
           /\ last' = Call("evaluate", h, "", <<text>>, FALSE, 0, "", FALSE, r, r.embeds)
    /\ UNCHANGED <<disk, env, fbDone, clock, projects, reply>>

Compare(h, text_a, text_b, okA, okB) ==
    /\ learner[h] # None
    /\ \E r \in {CompareTexts(learner[h][1], text_a, text_b, okA, okB)} :
           /\ learner' = [learner EXCEPT ![h] = Some(r.learner)]
           /\ last' = Call("compare", h, "", <<text_a, text_b>>, FALSE, 0, "", FALSE,
                           r, r.embeds)
    /\ UNCHANGED <<disk, env, fbDone, clock, projects, reply>>

Prompt(h, include_samples, n_samples) ==
    /\ learner[h] # None
    /\ \E r \in {GenerateVoicePrompt(learner[h][1], include_samples, n_samples)} :
           /\ learner' = [learner EXCEPT ![h] = Some(r.learner)]
           /\ last' = Call("prompt", h, "", <<>>, include_samples, n_samples, "", FALSE,
                           r, r.embeds)
    /\ UNCHANGED <<disk, env, fbDone, clock, projects, reply>>

(* Operations on a VoiceManager. *)

Setup(m, user_id, samples, contrast, ok1, ok2, limit) ==
    /\ \E r \in {SetupVoice(learner[m], disk, env, user_id, samples, contrast,
                           ok1, ok2, clock + 1)} :
           /\ learner' = [learner EXCEPT ![m] = r.slot]
           /\ disk' = r.files
           /\ fbDone' = IF r.err = "" THEN [fbDone EXCEPT ![user_id] = 0] ELSE fbDone
           /\ last' = Call("setup_voice", m, user_id, samples, FALSE, 0,
                           IF contrast = None THEN "" ELSE contrast[1].label,
                           FALSE, r, r.embeds)
           /\ Tick(r.slot # None /\ r.slot[1].signature # None, limit)
    /\ UNCHANGED <<env, projects, reply>>

LoadProfile(m, user_id) ==
    /\ \E r \in {LoadVoice(learner[m], disk, env, user_id)} :
           /\ learner' = [learner EXCEPT ![m] = r.slot]
           /\ last' = Call("load_voice", m, user_id, <<>>, FALSE, 0, "", FALSE, r, r.embeds)
    /\ UNCHANGED <<disk, env, fbDone, clock, projects, reply>>

MoreSamples(m, user_id, samples, ok, limit) ==
    /\ \E r \in {AddSamples(learner[m], disk, env, user_id, samples, ok, clock + 1)} :
           /\ learner' = [learner EXCEPT ![m] = r.slot]
           /\ disk' = r.files
           /\ fbDone' = IF r.err = "" /\ disk[user_id] = None
                        THEN [fbDone EXCEPT ![user_id] = 0] ELSE fbDone
           /\ last' = Call("add_samples", m, user_id, samples, FALSE, 0, "",
                           disk[user_id] # None, r, r.embeds)
           /\ Tick(r.err = "", limit)
    /\ UNCHANGED <<env, projects, reply>>

UserFeedback(m, user_id, text, sounds_like_me, ok, limit) ==
    /\ \E r \in {ManagerFeedback(learner[m], disk, env, user_id, text, sounds_like_me,
                                ok, clock + 1)} :
           /\ learner' = [learner EXCEPT ![m] = r.slot]
           /\ disk' = r.files
           /\ fbDone' = IF r.err = "" THEN [fbDone EXCEPT ![user_id] = @ + 1] ELSE fbDone
           /\ last' = Call("manager_feedback", m, user_id, <<text>>, sounds_like_me,
                           DefaultStrength, "", FALSE, r, r.embeds)
           /\ Tick(r.err = "", limit)
    /\ UNCHANGED <<env, projects, reply>>

UserEvaluate(m, user_id, text, ok) ==
    /\ \E r \in {ManagerEvaluate(learner[m], disk, env, user_id, text, ok)} :
           /\ learner' = [learner EXCEPT ![m] = r.slot]
           /\ last' = Call("manager_evaluate", m, user_id, <<text>>, FALSE, 0, "", FALSE,
                           r, r.embeds)
    /\ UNCHANGED <<disk, env, fbDone, clock, projects, reply>>

UserPrompt(m, user_id) ==
    /\ \E r \in {GetPrompt(learner[m], disk, env, user_id)} :
           /\ learner' = [learner EXCEPT ![m] = r.slot]
           /\ last' = Call("get_prompt", m, user_id, <<>>, FALSE, 0, "", FALSE, r, r.embeds)
    /\ UNCHANGED <<disk, env, fbDone, clock, projects, reply>>

\* _chunk_text(text, chunk_size) on its own; last.strength holds the chunk size.
ChunkSample(t, chunk_size) ==
    /\ last' = Call("chunk_text", Solo, "", <<t>>, FALSE, chunk_size, "", FALSE,
                    [err |-> "", value |-> Some(ChunkTextSized(t, chunk_size))], <<>>)
    /\ UNCHANGED <<learner, disk, env, clock, fbDone, projects, reply>>

(* Operations on a MultiDraftWorkflow. *)

Start(user_id, initial_input, limit) ==
    /\ \E r \in {StartProject(projects, user_id, "topic", initial_input, clock + 1)} :
           /\ projects' = r.files
           /\ reply' = [op |-> "start_project", project |-> ProjectId(user_id, clock + 1),
                        version |-> 0, result |-> r.result, pre |-> projects]
           /\ Tick(r.files # projects, limit)
    /\ UNCHANGED <<learner, disk, env, last, fbDone>>

Submit(project_id, draft_content, limit) ==
    /\ \E r \in {SubmitDraft(projects, project_id, draft_content, "", clock + 1)} :
           /\ projects' = r.files
           /\ reply' = [op |-> "submit_draft", project |-> project_id, version |-> 0,
                        result |-> r.result, pre |-> projects]
           /\ Tick(r.files # projects, limit)
    /\ UNCHANGED <<learner, disk, env, last, fbDone>>

Review(project_id, version, comments, limit) ==
    /\ \E r \in {AddAgentReview(projects, project_id, version, comments, clock + 1)} :
           /\ projects' = r.files
           /\ reply' = [op |-> "add_agent_review", project |-> project_id,
                        version |-> version, result |-> r.result, pre |-> projects]
           /\ Tick(r.files # projects, limit)
    /\ UNCHANGED <<learner, disk, env, last, fbDone>>

Status(project_id) ==
    /\ \E r \in {GetProjectStatus(projects, project_id)} :
           /\ reply' = [op |-> "get_project_status", project |-> project_id, version |-> 0,
                        result |-> r.result, pre |-> projects]
    /\ UNCHANGED <<learner, disk, env, clock, last, fbDone, projects>>

\* Another provider becomes the one the probe of _get_default_embedder finds.
SwitchProvider(p) ==
    /\ p # env
    /\ env' = p
    /\ UNCHANGED <<learner, disk, clock, last, fbDone, projects, reply>>

(* Spec: one learner used directly, every text and every operation.  A failing
   provider is tried once per operation. *)

Next ==
    \/ \E texts \in Batches(Texts, MaxBatch), merge \in BOOLEAN :
           Learn(Solo, texts, "u1", merge, TRUE, MaxOpsCore)
    \/ \E merge \in BOOLEAN : Learn(Solo, <<"s">>, "u1", merge, FALSE, MaxOpsCore)
    \/ \E texts \in Batches(Texts, MaxBatch) :
           Contrast(Solo, texts, "ai_generated", TRUE, MaxOpsCore)
    \/ Contrast(Solo, <<"s">>, "ai_generated", FALSE, MaxOpsCore)
    \/ \E t \in Texts, sounds \in BOOLEAN, strength \in Strengths :
           GiveFeedback(Solo, t, sounds, strength, TRUE, MaxOpsCore)
    \/ GiveFeedback(Solo, "s", TRUE, DefaultStrength, FALSE, MaxOpsCore)
    \/ \E t \in Texts : Eval(Solo, t, TRUE)
    \/ Eval(Solo, "s", FALSE)
    \/ \E a \in Texts : Compare(Solo, a, "m", TRUE, TRUE)
    \/ \E okA \in BOOLEAN : Compare(Solo, "s", "m", okA, FALSE)
    \/ \E inc \in BOOLEAN : Prompt(Solo, inc, DefaultNSamples)

Spec == Init /\ [][Next]_vars

(* SpecLong: one learner, one short text, long runs: a signature is learned once
   and then merged into and given feedback many times. *)

NextLong ==
    \/ /\ learner[Solo][1].signature = None
       /\ \E texts \in Batches({"s"}, MaxBatch) :
              Learn(Solo, texts, "u1", FALSE, TRUE, MaxOpsLong)
    \/ \E texts \in Batches({"s"}, MaxBatch) :
           Learn(Solo, texts, "u1", TRUE, TRUE, MaxOpsLong)
    \/ /\ learner[Solo][1].signature # None
       /\ Len(learner[Solo][1].signature[1].contrast_labels) < MaxContrasts
       /\ Contrast(Solo, <<"s">>, "ai_generated", TRUE, MaxOpsLong)
    \/ \E sounds \in BOOLEAN :
           GiveFeedback(Solo, "s", sounds, DefaultStrength, TRUE, MaxOpsLong)

SpecLong == Init /\ [][NextLong]_vars

(* SpecMgr: two VoiceManager objects over one profiles directory, their calls
   one after the other. *)

NextMgr ==
    \/ \E m \in Managers, ok \in BOOLEAN :
           Setup(m, "u1", <<"s">>, None, ok, TRUE, MaxOpsMgr)
    \/ \E ok2 \in BOOLEAN :
           Setup("m1", "u1", <<"s">>, Some([label |-> "ai_generated", texts |-> <<"m">>]),
                 TRUE, ok2, MaxOpsMgr)
    \/ \E m \in Managers : LoadProfile(m, "u1")
    \/ \E m \in Managers, ok \in BOOLEAN : MoreSamples(m, "u1", <<"m">>, ok, MaxOpsMgr)
    \/ \E m \in Managers, sounds \in BOOLEAN, ok \in BOOLEAN :
           UserFeedback(m, "u1", "s", sounds, ok, MaxOpsMgr)
    \/ \E m \in Managers, ok \in BOOLEAN : UserEvaluate(m, "u1", "s", ok)
    \/ \E m \in Managers : UserPrompt(m, "u1")

SpecMgr == Init /\ [][NextMgr]_vars

(* SpecDim: one VoiceManager and its learner, used through the manager and
   directly, while the provider the probe finds changes. *)

NextDim ==
    \/ \E p \in Providers : SwitchProvider(p)
    \/ \E texts \in Batches({"s"}, 1), ok \in BOOLEAN :
           Setup("m1", "u1", texts, None, ok, TRUE, MaxOpsDim)
    \/ LoadProfile("m1", "u1")
    \/ \E ok \in BOOLEAN : MoreSamples("m1", "u1", <<"s">>, ok, MaxOpsDim)
    \/ \E ok \in BOOLEAN : UserFeedback("m1", "u1", "s", TRUE, ok, MaxOpsDim)
    \/ \E ok \in BOOLEAN : UserEvaluate("m1", "u1", "s", ok)
    \/ UserPrompt("m1", "u1")
    \/ \E texts \in Batches({"s"}, 1), merge \in BOOLEAN :
           Learn("m1", texts, "u1", merge, TRUE, MaxOpsDim)
    \/ \E ok \in BOOLEAN : Contrast("m1", <<"s">>, "ai_generated", ok, MaxOpsDim)
    \/ \E ok \in BOOLEAN : GiveFeedback("m1", "s", FALSE, DefaultStrength, ok, MaxOpsDim)
    \/ \E ok \in BOOLEAN : Eval("m1", "s", ok)
    \/ Compare("m1", "s", "s", TRUE, TRUE)
    \/ Prompt("m1", TRUE, DefaultNSamples)

SpecDim == Init /\ [][NextDim]_vars

(* SpecCon: one learner, a signature learned from one text, then merges under
   either writer identifier, contrasts of every text and label, feedback and
   evaluations. *)

NextCon ==
    \/ /\ learner[Solo][1].signature = None
       /\ \E t \in Texts : Learn(Solo, <<t>>, "u1", FALSE, TRUE, MaxOpsCon)
    \/ \E u \in Users : Learn(Solo, <<"s">>, u, TRUE, TRUE, MaxOpsCon)
    \/ \E t \in Texts, label \in Labels : Contrast(Solo, <<t>>, label, TRUE, MaxOpsCon)
    \/ \E sounds \in BOOLEAN :
           GiveFeedback(Solo, "m", sounds, DefaultStrength, TRUE, MaxOpsCon)
    \/ \E t \in Texts : Eval(Solo, t, TRUE)

SpecCon == Init /\ [][NextCon]_vars

(* SpecFresh: one learner that learns afresh again and again, from batches of
   up to MaxFreshBatch samples, with a contrast and feedback in between. *)

FreshBatches ==
    {[i \in SeqRange(n) |-> "s"] : n \in 0..MaxFreshBatch} \cup {<<"m">>, <<"l", "m">>}

NextFresh ==
    \/ \E texts \in FreshBatches : Learn(Solo, texts, "u1", FALSE, TRUE, MaxOpsFresh)
    \/ Contrast(Solo, <<"m">>, "ai_generated", TRUE, MaxOpsFresh)
    \/ \E sounds \in BOOLEAN :
           GiveFeedback(Solo, "s", sounds, DefaultStrength, TRUE, MaxOpsFresh)

SpecFresh == Init /\ [][NextFresh]_vars

(* SpecIso: one VoiceManager serving two users. *)

NextIso ==
    \/ \E u \in Users : Setup("m1", u, <<"s">>, None, TRUE, TRUE, MaxOpsIso)
    \/ \E u \in Users : LoadProfile("m1", u)
    \/ \E u \in Users : MoreSamples("m1", u, <<"m">>, TRUE, MaxOpsIso)
    \/ \E u \in Users, sounds \in BOOLEAN :
           UserFeedback("m1", u, "s", sounds, TRUE, MaxOpsIso)
    \/ \E u \in Users : UserEvaluate("m1", u, "s", TRUE)
    \/ \E u \in Users : UserPrompt("m1", u)

SpecIso == Init /\ [][NextIso]_vars

(* SpecDraft: one MultiDraftWorkflow and one project: drafts are submitted and
   reviewed under version numbers that name a draft and that name none. *)

ProjectIds == DOMAIN projects \cup {MissingProject}
Versions == (-1..2) \cup {MAX_DRAFTS, MAX_DRAFTS + 1}

NextDraft ==
    \/ /\ DOMAIN projects = {}
       /\ \E input \in Inputs : Start("u1", input, MaxOpsDraft)
    \/ \E id \in ProjectIds, draft \in Drafts : Submit(id, draft, MaxOpsDraft)
    \/ \E id \in ProjectIds, version \in Versions :
           Review(id, version, Comments, MaxOpsDraft)
    \/ \E id \in ProjectIds : Status(id)

SpecDraft == Init /\ [][NextDraft]_vars

(* SpecChunk: _chunk_text as a function of the text and the chunk size. *)

NextChunk == \E t \in SampleTexts, chunk_size \in ChunkSizes : ChunkSample(t, chunk_size)

SpecChunk == Init /\ [][NextChunk]_vars

----------------------------------------------------------------------------
(* Properties of the signatures held in memory and stored in profiles. *)

\* The signature a learner slot holds, <<>> when there is no learner or no signature.
SigOf(slot) == IF slot = None THEN None ELSE slot[1].signature

HeldSignatures == {SigOf(learner[h])[1] : h \in {x \in Holders : SigOf(learner[x]) # None}}
StoredSignatures == {disk[u][1] : u \in {x \in Users : disk[x] # None}}
AllSignatures == HeldSignatures \cup StoredSignatures

\* The last operation was one of ops, on a learner holding a signature, and succeeded.
Updated(ops) == last.op \in ops /\ last.err = "" /\ SigOf(last.pre) # None
Before == SigOf(last.pre)[1]
After == SigOf(learner[last.holder])[1]

\* C1: after any sequence of learn, merge, add_contrast and feedback operations
\* the threshold of the signature lies in [0.3, 0.95], the threshold a fresh
\* learn or a merge sets included.
C1_ThresholdInRange ==
    \A sig \in AllSignatures :
        /\ sig.similarity_threshold >= ThresholdFloor
        /\ sig.similarity_threshold <= ThresholdCeiling

\* C2: merge, feedback and add_contrast on an existing signature never lower its
\* confidence.
C2_ConfidenceNeverDecreases ==
    Updated({"merge", "feedback", "add_contrast"}) =>
        After.confidence >= Before.confidence

\* C3: after any sequence of learn, merge, add_contrast and feedback operations
\* the confidence of the signature lies in [0, 0.98].
C3_ConfidenceInRange ==
    \A sig \in AllSignatures : sig.confidence >= 0 /\ sig.confidence <= FeedbackConfCap

\* A feedback event has just raised the confidence to the cap of 0.98.
C3_Witness ==
    /\ Updated({"feedback"})
    /\ Before.confidence < FeedbackConfCap
    /\ After.confidence = FeedbackConfCap

\* C4: feedback with sounds_like_me = true adds exactly 1 to positive_feedback,
\* leaves negative_feedback alone and does not raise the threshold.
C4_PositiveFeedback ==
    (Updated({"feedback"}) /\ last.sounds) =>
        /\ After.positive_feedback = Before.positive_feedback + 1
        /\ After.negative_feedback = Before.negative_feedback
        /\ After.similarity_threshold <= Before.similarity_threshold

\* C5: feedback with sounds_like_me = false adds exactly 1 to negative_feedback,
\* leaves positive_feedback alone and does not lower the threshold.
C5_NegativeFeedback ==
    (Updated({"feedback"}) /\ ~last.sounds) =>
        /\ After.negative_feedback = Before.negative_feedback + 1
        /\ After.positive_feedback = Before.positive_feedback
        /\ After.similarity_threshold >= Before.similarity_threshold

\* C6: when the embedding call of a learn or a merge fails, the signature held
\* in memory and the persisted signature are what they were before the call.
C6_FailedLearnLeavesSignature ==
    (/\ last.op \in {"learn", "merge", "setup_voice", "add_samples"}
     /\ last.err = "EmbedError"
     /\ Len(last.embeds) = 1) =>
        /\ SigOf(learner[last.holder]) = SigOf(last.pre)
        /\ disk = last.preFiles

\* C7: learn with an empty list of samples fails with a NoSamplesError, and no
\* signature is created or stored.
C7_EmptyLearnRaisesNoSamples ==
    (last.op \in {"learn", "setup_voice"} /\ last.texts = <<>>) =>
        /\ last.err = "NoSamplesError"
        /\ SigOf(learner[last.holder]) = SigOf(last.pre)
        /\ disk = last.preFiles

LearnerReads == {"add_contrast", "feedback", "evaluate", "compare", "prompt"}
ManagerReads == {"manager_feedback", "manager_evaluate", "get_prompt"}

\* The last operation ran where no signature exists: on a learner without one, or
\* on a manager that holds none and finds no profile of the user.
BeforeSignature ==
    \/ /\ last.op \in LearnerReads
       /\ SigOf(last.pre) = None
    \/ /\ last.op \in ManagerReads
       /\ SigOf(last.pre) = None
       /\ last.preFiles[last.user] = None

\* C8: add_contrast, feedback, evaluate, compare and the prompt, invoked before a
\* signature exists, fail with the no-signature error, embed nothing and change
\* nothing.
C8_NoSignatureFails ==
    BeforeSignature =>
        /\ last.err \in {"NoSignature", "NoProfile"}
        /\ last.embeds = <<>>
        /\ learner[last.holder] = last.pre
        /\ disk = last.preFiles

\* feedback was called on a learner that has no signature yet.
C8_Witness ==
    /\ last.op = "feedback"
    /\ last.pre # None
    /\ SigOf(last.pre) = None
    /\ last.err = "NoSignature"

\* C9: with the calls for one user one after the other, the persisted record
\* counts every completed feedback call, through whichever manager it came.
C9_PersistedCountsAllFeedback ==
    \A u \in Users :
        disk[u] # None =>
            disk[u][1].positive_feedback + disk[u][1].negative_feedback = fbDone[u]

\* C10: the signature vector and every contrast vector have the length recorded
\* as the dimension of the signature.
C10_DimensionInvariant ==
    \A sig \in AllSignatures :
        /\ Len(sig.signature_vector) = sig.signature_dim
        /\ \A i \in SeqRange(Len(sig.contrast_vectors)) :
               Len(sig.contrast_vectors[i]) = sig.signature_dim

\* C11: evaluate changes no field of the signature, and a second evaluate of the
\* same text right after it returns the same result.
C11_EvaluateChangesNothing ==
    (last.op = "evaluate" /\ last.err = "") =>
        /\ learner[last.holder] = last.pre
        /\ disk = last.preFiles
        /\ Evaluate(learner[last.holder][1], last.texts[1], TRUE).value = last.value

\* evaluate has judged a text against a signature that has a contrast vector.
C11_Witness ==
    /\ last.op = "evaluate"
    /\ last.err = ""
    /\ SigOf(last.pre)[1].contrast_vectors # <<>>
    /\ last.value[1].adjusted_similarity < SigOf(last.pre)[1].similarity_threshold

\* The threshold learn_from_samples computes from a batch alone: the 10th
\* percentile of the similarities of its chunks to their mean.
CandidateThreshold(p, texts) ==
    LET embeddings == Embed(p, AllChunks(texts))
    IN  Percentile(CosineSimilarity(embeddings, Mean(embeddings)), PercentileRank)

\* C12: after a merge the threshold is the smaller of the old threshold and the
\* candidate threshold of the new batch alone, so a merge never raises it.
C12_MergeThresholdIsMin ==
    Updated({"merge"}) =>
        LET candidate == CandidateThreshold(last.pre[1].embedder, last.texts)
        IN  /\ After.similarity_threshold <= Before.similarity_threshold
            /\ After.similarity_threshold <= candidate
            /\ After.similarity_threshold \in {Before.similarity_threshold, candidate}

\* A merge whose batch has a higher candidate threshold than the signature has
\* kept the old threshold.
C12_Witness ==
    /\ Updated({"merge"})
    /\ CandidateThreshold(last.pre[1].embedder, last.texts) > Before.similarity_threshold
    /\ After.similarity_threshold = Before.similarity_threshold

\* The elements of a list, as a set.
Elements(xs) == {xs[i] : i \in DOMAIN xs}

\* C13: a merge adds the number of new samples to sample_count and their words
\* to total_words, also for a sample whose digest is already recorded, and
\* sample_hashes becomes the union of the old and the new digests, each once.
C13_MergeCountsAndFingerprints ==
    Updated({"merge"}) =>
        /\ After.sample_count = Before.sample_count + Len(last.texts)
        /\ After.total_words = Before.total_words + SumWords(last.texts)
        /\ Elements(After.sample_hashes) =
               Elements(Before.sample_hashes) \cup {HashText(t) : t \in Elements(last.texts)}
        /\ Len(After.sample_hashes) = Cardinality(Elements(After.sample_hashes))

\* A merge has absorbed a sample whose digest the signature had recorded before.
C13_Witness ==
    /\ Updated({"merge"})
    /\ \E t \in Elements(last.texts) : HashText(t) \in Elements(Before.sample_hashes)
    /\ After.sample_count > Before.sample_count
    /\ After.total_words > Before.total_words

\* C14: a merge carries the contrast vectors with their labels, both feedback
\* counters and created_at over from the existing signature unchanged.
C14_MergeCarriesOver ==
    Updated({"merge"}) =>
        /\ After.contrast_vectors = Before.contrast_vectors
        /\ After.contrast_labels = Before.contrast_labels
        /\ After.positive_feedback = Before.positive_feedback
        /\ After.negative_feedback = Before.negative_feedback
        /\ After.created_at = Before.created_at

\* A merge into a signature that has a contrast vector and feedback of both
\* kinds, some time after it was created.
C14_Witness ==
    /\ Updated({"merge"})
    /\ Before.contrast_vectors # <<>>
    /\ Before.positive_feedback > 0
    /\ Before.negative_feedback > 0
    /\ After.updated_at > After.created_at + 1

\* Whether the list xs is the beginning of the list ys.
IsPrefix(xs, ys) == Len(xs) <= Len(ys) /\ \A i \in DOMAIN xs : xs[i] = ys[i]

\* C15: add_contrast appends exactly one vector and its label at the end of the
\* contrast list and leaves the signature vector, the threshold, the confidence,
\* the sample counters and the feedback counters alone; merge, feedback and
\* add_contrast never remove, reorder or alter the entries the list had.
C15_ContrastAppendOnly ==
    /\ Updated({"add_contrast"}) =>
           /\ After.contrast_vectors =
                  Append(Before.contrast_vectors,
                         Mean(Embed(last.pre[1].embedder, AllChunks(last.texts))))
           /\ After.contrast_labels = Append(Before.contrast_labels, last.label)
           /\ After.signature_vector = Before.signature_vector
           /\ After.similarity_threshold = Before.similarity_threshold
           /\ After.confidence = Before.confidence
           /\ After.sample_count = Before.sample_count
           /\ After.total_words = Before.total_words
           /\ After.sample_hashes = Before.sample_hashes
           /\ After.positive_feedback = Before.positive_feedback
           /\ After.negative_feedback = Before.negative_feedback
    /\ Updated({"merge", "feedback", "add_contrast"}) =>
           /\ IsPrefix(Before.contrast_vectors, After.contrast_vectors)
           /\ IsPrefix(Before.contrast_labels, After.contrast_labels)

\* add_contrast has added a second pair, of another label and another vector,
\* behind the first.
C15_Witness ==
    /\ Updated({"add_contrast"})
    /\ Len(Before.contrast_vectors) = 1
    /\ Len(After.contrast_vectors) = 2
    /\ After.contrast_labels[2] # After.contrast_labels[1]
    /\ After.contrast_vectors[2] # After.contrast_vectors[1]

\* C16: the user_id of a signature stays the one it was created with through
\* every merge, feedback and add_contrast, whatever user_id a merge is given.
C16_WriterIdImmutable ==
    Updated({"merge", "feedback", "add_contrast"}) => After.user_id = Before.user_id

\* C17: sample_hashes never holds the same digest twice, after a fresh learn
\* from a batch with identical samples and after any number of merges.
C17_FingerprintsAreSet ==
    \A sig \in AllSignatures :
        Len(sig.sample_hashes) = Cardinality(Elements(sig.sample_hashes))

\* C18: sample_count and total_words never decrease through a merge, a feedback
\* or an add_contrast on a signature.
C18_CountsNeverDecrease ==
    Updated({"merge", "feedback", "add_contrast"}) =>
        /\ After.sample_count >= Before.sample_count
        /\ After.total_words >= Before.total_words

\* A merge of one sample into a signature of several samples, which has had
\* feedback and a contrast, has raised both counters.
C18_Witness ==
    /\ Updated({"merge"})
    /\ Len(last.texts) < Before.sample_count
    /\ Before.positive_feedback + Before.negative_feedback > 0
    /\ Before.contrast_vectors # <<>>
    /\ After.sample_count > Before.sample_count
    /\ After.total_words > Before.total_words

\* The largest of the scores evaluate returned, 0 when it returned none.
MaxContrastScore(scores) ==
    IF DOMAIN scores = {} THEN 0
    ELSE CHOOSE x \in {scores[l] : l \in DOMAIN scores} :
             \A l \in DOMAIN scores : scores[l] <= x

\* C19: evaluate returns sounds_like_me = true exactly when the adjusted
\* similarity is at least the threshold of the signature, the adjusted
\* similarity being the similarity minus 0.3 times the largest contrast score,
\* or the similarity itself when the signature has no contrast vectors.
C19_SoundsLikeMeRule ==
    (last.op = "evaluate" /\ last.err = "") =>
        LET result == last.value[1]
            sig == SigOf(last.pre)[1]
        IN  /\ result.sounds_like_me =
                   (result.adjusted_similarity >= sig.similarity_threshold)
            /\ result.adjusted_similarity =
                   result.similarity
                       - (ContrastPenalty * MaxContrastScore(result.contrast_scores)) \div 10
            /\ sig.contrast_vectors = <<>> => DOMAIN result.contrast_scores = {}
            /\ sig.contrast_vectors # <<>> => DOMAIN result.contrast_scores # {}

\* evaluate has rejected a text whose similarity reaches the threshold, because
\* of the penalty for its likeness to a contrast.
C19_Witness ==
    /\ last.op = "evaluate"
    /\ last.err = ""
    /\ SigOf(last.pre)[1].contrast_vectors # <<>>
    /\ last.value[1].similarity >= SigOf(last.pre)[1].similarity_threshold
    /\ ~last.value[1].sounds_like_me

\* The similarity of the embedding of a text to itself.
SelfSimilarity(p, t) ==
    CosineSimilaritySingle(EmbedOne(p, RawText(t)), EmbedOne(p, RawText(t)))

\* C20: add_contrast([text], label) on a signature without contrasts, followed
\* by evaluate(text), yields contrast_scores[label] equal to the similarity of
\* the text to itself and an adjusted similarity of the similarity minus 0.3
\* times that, for a text of any length.
C20_ContrastOfTextScoresOne ==
    [][(/\ last.op = "add_contrast"
        /\ last.err = ""
        /\ Len(last.texts) = 1
        /\ SigOf(last.pre)[1].contrast_vectors = <<>>
        /\ last'.op = "evaluate"
        /\ last'.err = ""
        /\ last'.texts = last.texts) =>
           LET result == last'.value[1]
               self == SelfSimilarity(last'.pre[1].embedder, last.texts[1])
           IN  /\ result.contrast_scores[last.label] = self
               /\ result.adjusted_similarity =
                      result.similarity - (ContrastPenalty * self) \div 10]_vars

\* The slice words[from : from + chunk_size] of the text has at least 100 words.
SliceKept(t, from, chunk_size) ==
    from < Words(t) /\ Min(chunk_size, Words(t) - from) >= MinChunkWords

\* C21: chunking never drops a sample: the chunks are not empty, and they are
\* either slices of the words of the text, one after the other, each of at
\* most chunk_size and at least 100 words, or the whole text alone when no
\* slice has 100 words.
C21_ChunkingKeepsSample ==
    last.op = "chunk_text" =>
        LET t == last.texts[1]
            chunk_size == last.strength
            chunks == last.value[1]
        IN  /\ chunks # <<>>
            /\ \/ \A k \in DOMAIN chunks :
                      /\ chunks[k].text = t
                      /\ chunks[k].from = (k - 1) * chunk_size
                      /\ chunks[k].from + chunks[k].len <= Words(t)
                      /\ chunks[k].len <= chunk_size
                      /\ chunks[k].len >= MinChunkWords
               \/ /\ chunks = <<RawText(t)>>
                  /\ \A from \in 0..Words(t) :
                         from % chunk_size = 0 => ~SliceKept(t, from, chunk_size)

\* A text of more than 100 words, cut with a chunk size under 100, came back
\* whole.
C21_Witness ==
    /\ last.op = "chunk_text"
    /\ Words(last.texts[1]) > MinChunkWords
    /\ last.strength < MinChunkWords
    /\ last.value[1] = <<RawText(last.texts[1])>>

\* C22: a feedback call adds 0.01 to the confidence, up to 0.98, exactly when
\* the two feedback counters after the call add up to more than 5; the first
\* five feedback events leave the confidence as it was.
C22_FeedbackConfidenceRule ==
    Updated({"feedback"}) =>
        LET total == After.positive_feedback + After.negative_feedback
        IN  /\ total > 5 =>
                   After.confidence =
                       (IF Before.confidence + 1 > 98 THEN 98 ELSE Before.confidence + 1)
            /\ total <= 5 => After.confidence = Before.confidence

\* The sixth feedback event on a signature has raised its confidence by 0.01.
C22_Witness ==
    /\ Updated({"feedback"})
    /\ After.positive_feedback + After.negative_feedback = 6
    /\ After.confidence = Before.confidence + 1

\* C23: feedback moves the threshold only when it disagrees with what the
\* threshold predicted: positive feedback only if the similarity of the text
\* to the vector before the update was below the threshold, negative feedback
\* only if it was at or above it; and a move is of at most 0.02 * strength.
C23_ThresholdMovesOnDisagreement ==
    Updated({"feedback"}) =>
        LET similarity ==
                CosineSimilaritySingle(EmbedOne(last.pre[1].embedder, RawText(last.texts[1])),
                                       Before.signature_vector)
            moved == After.similarity_threshold - Before.similarity_threshold
            step == (ThresholdStep * last.strength) \div 100
        IN  /\ (last.sounds /\ moved # 0) => similarity < Before.similarity_threshold
            /\ (~last.sounds /\ moved # 0) => similarity >= Before.similarity_threshold
            /\ moved <= step
            /\ -moved <= step

\* C24: every learn, merge and add_contrast that gets as far as embedding calls
\* the provider exactly once, with all chunks of all its texts in the order of
\* the texts, and never once per chunk.
C24_OneEmbeddingCall ==
    (last.op \in {"learn", "merge", "add_contrast"} /\ last.err # "NoSignature") =>
        /\ Len(last.embeds) = 1
        /\ last.embeds[1] = AllChunks(last.texts)

\* An operation on two texts that make more than two chunks has succeeded.
C24_Witness ==
    /\ last.op \in {"learn", "merge", "add_contrast"}
    /\ last.err = ""
    /\ Len(last.texts) = 2
    /\ Len(AllChunks(last.texts)) > 2
    /\ Len(last.embeds) = 1

\* Whether every text of both batches is cut into the same number of chunks.
SameChunksPerSample(a, b) ==
    \A x \in Elements(a) \cup Elements(b), y \in Elements(a) \cup Elements(b) :
        Len(ChunkText(x)) = Len(ChunkText(y))

\* The signature before the merge is the one a fresh learn makes of the batch
\* the learner remembers.
BuiltFromRememberedBatch ==
    /\ last.pre[1].samples # <<>>
    /\ Before.sample_count = Len(last.pre[1].samples)
    /\ Before.signature_vector =
           Mean(Embed(last.pre[1].embedder, AllChunks(last.pre[1].samples)))

\* Whether two vectors are equal up to the rounding of the three divisions that
\* lie between them, each of less than one thousandth.
EqualUpToRounding(a, b) ==
    /\ Len(a) = Len(b)
    /\ \A i \in DOMAIN a : a[i] - b[i] \in -2..2

\* C25: after a merge the vector is (old vector * old sample_count + candidate
\* * number of new samples) / (sum of the two), the candidate being the mean of
\* the embeddings of the chunks of the new batch; when the old and the new
\* batch have as many samples and as many chunks per sample, that is the mean
\* of the embeddings of all chunks of both batches.
C25_MergeVector ==
    Updated({"merge"}) =>
        LET p == last.pre[1].embedder
            candidate == Mean(Embed(p, AllChunks(last.texts)))
            old_count == Before.sample_count
            new_count == Len(last.texts)
        IN  /\ After.signature_vector =
                   [i \in DOMAIN candidate |->
                       (Before.signature_vector[i] * old_count + candidate[i] * new_count)
                           \div (old_count + new_count)]
            /\ (/\ BuiltFromRememberedBatch
                /\ Len(last.pre[1].samples) = new_count
                /\ SameChunksPerSample(last.pre[1].samples, last.texts)) =>
                   EqualUpToRounding(
                       After.signature_vector,
                       Mean(Embed(p, AllChunks(last.pre[1].samples \o last.texts))))

\* A merge of two samples into a signature learned from two other samples, all
\* four of two chunks, has moved the vector to the mean of the eight chunks.
C25_Witness ==
    /\ Updated({"merge"})
    /\ BuiltFromRememberedBatch
    /\ Len(last.texts) = 2
    /\ Len(last.pre[1].samples) = 2
    /\ SameChunksPerSample(last.pre[1].samples, last.texts)
    /\ Len(AllChunks(last.texts)) = 4
    /\ After.signature_vector # Before.signature_vector

\* C26: a fresh learn from n >= 1 samples makes a signature with sample_count
\* n, total_words the sum of the word counts of the samples, confidence
\* min(0.9, 0.3 + 0.1 * n), both feedback counters 0 and no contrast.
C26_FreshSignature ==
    (last.op = "learn" /\ last.err = "" /\ Len(last.texts) >= 1) =>
        LET n == Len(last.texts)
        IN  /\ After.sample_count = n
            /\ After.total_words = SumWords(last.texts)
            /\ After.confidence = (IF 30 + 10 * n > 90 THEN 90 ELSE 30 + 10 * n)
            /\ After.positive_feedback = 0
            /\ After.negative_feedback = 0
            /\ After.contrast_vectors = <<>>
            /\ After.contrast_labels = <<>>

\* A fresh learn from seven samples, on a learner whose signature had feedback
\* and a contrast, has made a signature of confidence 0.9.
C26_Witness ==
    /\ last.op = "learn"
    /\ last.err = ""
    /\ Len(last.texts) = 7
    /\ SigOf(last.pre) # None
    /\ SigOf(last.pre)[1].contrast_vectors # <<>>
    /\ SigOf(last.pre)[1].positive_feedback + SigOf(last.pre)[1].negative_feedback > 0
    /\ After.confidence = 90

\* C27: through one VoiceManager the users are kept apart: the record stored
\* under a user_id has that user_id, and feedback, evaluate and get_prompt for
\* one user never read or change the signature of another user the manager
\* worked on before.
C27_PerWriterIsolation ==
    /\ \A u \in Users : disk[u] # None => disk[u][1].user_id = u
    /\ (last.op \in ManagerReads /\ last.err = "") =>
           /\ SigOf(learner[last.holder])[1].user_id = last.user
           /\ \A u \in Users \ {last.user} : disk[u] = last.preFiles[u]
    /\ (last.op \in ManagerReads /\ SigOf(last.pre) # None
                                  /\ SigOf(last.pre)[1].user_id # last.user) =>
           SigOf(learner[last.holder]) # SigOf(last.pre)

\* The largest similarity of an embedding to any of the vectors.
HighestSimilarity(embedding, vectors) ==
    CHOOSE x \in {CosineSimilaritySingle(embedding, vectors[i]) : i \in DOMAIN vectors} :
        \A i \in DOMAIN vectors : CosineSimilaritySingle(embedding, vectors[i]) <= x

\* C28: the penalty of evaluate comes from the highest similarity of the text
\* to any stored contrast vector, and contrast_scores has one entry for every
\* stored contrast vector, also when a label was added more than once.
C28_EveryContrastCounts ==
    (last.op = "evaluate" /\ last.err = "" /\ SigOf(last.pre)[1].contrast_vectors # <<>>) =>
        LET result == last.value[1]
            sig == SigOf(last.pre)[1]
            embedding == EmbedOne(last.pre[1].embedder, RawText(last.texts[1]))
        IN  /\ Cardinality(DOMAIN result.contrast_scores) = Len(sig.contrast_vectors)
            /\ result.adjusted_similarity =
                   result.similarity
                       - (ContrastPenalty * HighestSimilarity(embedding, sig.contrast_vectors))
                             \div 10

\* C29: after any sequence of submit_draft and add_agent_review calls a project
\* holds at most max_drafts_allowed (5) drafts, numbered 1..n in order; a
\* submit_draft at the cap returns MAX_DRAFTS_REACHED and leaves the stored
\* project as it was.
C29_DraftsCappedAndNumbered ==
    /\ \A id \in DOMAIN projects :
           /\ Len(projects[id].draft_history) <= 5
           /\ Len(projects[id].draft_history) <= projects[id].max_drafts_allowed
           /\ \A i \in DOMAIN projects[id].draft_history :
                  projects[id].draft_history[i].version = i
    /\ (/\ reply.op = "submit_draft"
        /\ reply.project \in DOMAIN reply.pre
        /\ Len(reply.pre[reply.project].draft_history) >= 5) =>
           /\ reply.result.status = "MAX_DRAFTS_REACHED"
           /\ projects = reply.pre

\* A sixth draft was submitted to a project that has five, one of them reviewed.
C29_Witness ==
    /\ reply.op = "submit_draft"
    /\ reply.project \in DOMAIN reply.pre
    /\ Len(reply.pre[reply.project].draft_history) = 5
    /\ \E i \in 1..5 : reply.pre[reply.project].draft_history[i].status = "reviewed"
    /\ reply.result.status = "MAX_DRAFTS_REACHED"

\* The drafts of the project a call was made on, before and after the call.
DraftsBefore == reply.pre[reply.project].draft_history
DraftsAfter == projects[reply.project].draft_history

\* C30: add_agent_review(project, version, comments) changes only the draft
\* whose version number equals the given version; for a version that names no
\* submitted draft (greater than the number of drafts, zero or negative) it
\* returns the error "Draft version not found" and leaves every draft and the
\* project's current_stage unchanged.
C30_ReviewTouchesOnlyNamedDraft ==
    (reply.op = "add_agent_review" /\ reply.project \in DOMAIN reply.pre) =>
        /\ Len(DraftsAfter) = Len(DraftsBefore)
        /\ \A i \in DOMAIN DraftsBefore :
               DraftsBefore[i].version # reply.version => DraftsAfter[i] = DraftsBefore[i]
        /\ reply.version \notin 1..Len(DraftsBefore) =>
               /\ reply.result.error = "Draft version not found"
               /\ ~reply.result.raised
               /\ DraftsAfter = DraftsBefore
               /\ projects[reply.project].current_stage
                      = reply.pre[reply.project].current_stage

====
